---------------------------- MODULE Spec2Model ----------------------------
(***************************************************************************)
(* A model of the Rust-Shell interpreter (src/main.rs).                    *)
(*                                                                         *)
(* Text is modelled as a sequence of one-character strings, so that the    *)
(* tokenizer, the trimming of the input buffer and the exact-string match  *)
(* of the redirection operators work on characters as the code does.       *)
(* A line written with a format macro (writeln!, eprintln!, print!) is     *)
(* modelled as the macro's format string together with its arguments.      *)
(***************************************************************************)
EXTENDS Integers, Sequences, FiniteSets, TLC

VARIABLES
    pc,           \* position of main's loop: "prompt", "read", "handle", "panicked"
    input,        \* main's `input` buffer (characters)
    eof,          \* TRUE once standard input has reached end of input
    nread,        \* number of lines read so far (bounded by MaxLines)
    CURRENT_DIR,  \* the CURRENT_DIR cell (a path, as characters)
    os_cwd,       \* the operating system's current directory of the process
    files,        \* the regular files: path -> the lines written to it
    stdout,       \* what the process wrote to its standard output since the last prompt
    stderr,       \* what the process wrote to its standard error since the last prompt
    called,       \* history: what handle_cmd did with that line
    last_cd,      \* history: the directory named by the last `cd <existing directory>` line
    fn,           \* pure-function specifications: the function under check
    arg_in,       \* pure-function specifications: its argument
    ret           \* pure-function specifications: its result (an Option)

vars == <<pc, input, eof, nread, CURRENT_DIR, os_cwd, files, stdout, stderr,
          called, last_cd, fn, arg_in, ret>>

shellVars == <<pc, input, eof, nread, CURRENT_DIR, os_cwd, files, stdout, stderr,
               called, last_cd>>

-----------------------------------------------------------------------------
(* Bounds *)

\* longest line given to the tokenizer in SpecTok
MaxLen == 5

\* longest token sequence given to parse_redirection in SpecRedir
MaxTokens == 4

\* number of lines read by main's loop in Spec
MaxLines == 2

-----------------------------------------------------------------------------
(* Characters *)

\* char::is_whitespace, restricted to the characters of the model
WhiteSpace == {" ", "\t", "\n"}

\* a mutant of is_whitespace: only the space separates
is_space(c) == c = " "

is_whitespace(c) == c \in WhiteSpace

BACKSLASH == "\\"

SQUOTE == "'"

DQUOTE == "\""

\* Vec::push / String::push
Push(s, x) == Append(s, x)

\* Option<T>: None is the empty sequence, Some(x) the sequence of x alone
None == <<>>

Some(x) == <<x>>

RECURSIVE SeqsUpTo(_, _)
\* the sequences over S of length at most n
SeqsUpTo(S, n) ==
    IF n = 0 THEN {<<>>}
    ELSE LET shorter == SeqsUpTo(S, n - 1)
         IN  shorter \cup {Append(q, x) : q \in {t \in shorter : Len(t) = n - 1}, x \in S}

RECURSIVE JoinFrom(_, _)
\* the tokens from position k on, joined with single spaces
JoinFrom(toks, k) ==
    IF k > Len(toks) THEN <<>>
    ELSE IF k = Len(toks) THEN toks[k]
    ELSE toks[k] \o <<" ">> \o JoinFrom(toks, k + 1)

Join(toks) == JoinFrom(toks, 1)

-----------------------------------------------------------------------------
(* handle_quotes: the tokenizer *)

\* the locals of handle_quotes before the loop
QuoteInit ==
    [args |-> <<>>, arg |-> <<>>, inside_single_quotes |-> FALSE,
     inside_double_quotes |-> FALSE, backslash |-> FALSE]

\* a mutant of DqEscapeKeepsBackslash: `$` is not among the special characters
DqEscapeDollarNotSpecial(c) == c # DQUOTE /\ c # BACKSLASH

\* the re-insertion of the backslash before a character that is not special
\* inside double quotes
DqEscapeKeepsBackslash(c) == c # "$" /\ c # DQUOTE /\ c # BACKSLASH

\* a mutant of CloseToken: the token is pushed even when it is empty
CloseTokenAlways(s) == [s EXCEPT !.args = Push(s.args, s.arg), !.arg = <<>>]

\* `if !arg.is_empty() { args.push(arg.clone()); arg.clear(); }`

CloseToken(s) ==
    IF s.arg # <<>>
    THEN [s EXCEPT !.args = Push(s.args, s.arg), !.arg = <<>>]
    ELSE s

\* a mutant of SingleQuoteStep: a backslash starts an escape and is not appended
SingleQuoteStepEscapes(s, c) ==
    IF c = SQUOTE
    THEN [s EXCEPT !.inside_single_quotes = FALSE]
    ELSE IF c = BACKSLASH
    THEN [s EXCEPT !.backslash = TRUE]
    ELSE [s EXCEPT !.arg = Push(s.arg, c)]

\* the branch taken by a character inside single quotes
SingleQuoteStep(s, c) ==
    IF c = SQUOTE
    THEN [s EXCEPT !.inside_single_quotes = FALSE]
    ELSE [s EXCEPT !.arg = Push(s.arg, c)]

\* the branch taken by a character inside double quotes
DoubleQuoteStep(s, c) ==
    IF s.backslash
    THEN IF DqEscapeKeepsBackslash(c)
         THEN [s EXCEPT !.backslash = FALSE, !.arg = Push(Push(s.arg, BACKSLASH), c)]
         ELSE [s EXCEPT !.backslash = FALSE, !.arg = Push(s.arg, c)]
    ELSE IF c = BACKSLASH
    THEN [s EXCEPT !.backslash = TRUE]
    ELSE IF c = DQUOTE
    THEN [s EXCEPT !.inside_double_quotes = FALSE]
    ELSE [s EXCEPT !.arg = Push(s.arg, c)]

\* the branch taken by a character outside any quote
UnquotedStep(s, c) ==
    IF s.backslash
    THEN [s EXCEPT !.arg = Push(s.arg, c), !.backslash = FALSE]
    ELSE IF c = BACKSLASH
    THEN [s EXCEPT !.backslash = TRUE]
    ELSE IF c = SQUOTE
    THEN [s EXCEPT !.inside_single_quotes = TRUE]
    ELSE IF c = DQUOTE
    THEN [s EXCEPT !.inside_double_quotes = TRUE]
    ELSE IF is_whitespace(c)
    THEN CloseToken(s)
    ELSE [s EXCEPT !.arg = Push(s.arg, c)]

\* one iteration of the loop over the characters
QuoteStep(s, c) ==
    IF ~s.inside_single_quotes /\ ~s.inside_double_quotes
    THEN UnquotedStep(s, c)
    ELSE IF s.inside_single_quotes
    THEN SingleQuoteStep(s, c)
    ELSE DoubleQuoteStep(s, c)

RECURSIVE QuoteScan(_, _, _)
\* the loop over the characters, from position i
QuoteScan(s, str, i) ==
    IF i > Len(str) THEN s ELSE QuoteScan(QuoteStep(s, str[i]), str, i + 1)

\* the locals of handle_quotes after the loop
QuoteFinal(args_str) == QuoteScan(QuoteInit, args_str, 1)

\* a mutant of handle_quotes: the last token is pushed even when it is empty
handle_quotesPushesLast(args_str) ==
    Push(QuoteFinal(args_str).args, QuoteFinal(args_str).arg)

handle_quotes(args_str) == CloseToken(QuoteFinal(args_str)).args

-----------------------------------------------------------------------------
(* parse_redirection *)

\* the match arm `">" | "1>"`
OpOutTrunc == {<<">">>, <<"1", ">">>}

\* the match arm `"2>"`
OpErrTrunc == {<<"2", ">">>}

\* the match arm `">>" | "1>>"`
OpOutAppend == {<<">", ">">>, <<"1", ">", ">">>}

\* the match arm `"2>>"`
OpErrAppend == {<<"2", ">", ">">>}

\* the six operators the match names
Operators == OpOutTrunc \cup OpErrTrunc \cup OpOutAppend \cup OpErrAppend

\* the locals of parse_redirection before the loop
RedirInit ==
    [cmd_args |-> <<>>, output_file |-> None, error_file |-> None,
     append_output |-> FALSE, append_error |-> FALSE]

\* a mutant of Capture: the filename operand is also kept as an argument
CaptureKeepsOperand(r, args, i) ==
    LET kept == [r EXCEPT !.cmd_args = Push(@, args[i + 1])]
    IN  IF args[i] \in OpOutTrunc \cup OpOutAppend
        THEN [kept EXCEPT !.output_file = Some(args[i + 1]),
                          !.append_output = @ \/ args[i] \in OpOutAppend]
        ELSE [kept EXCEPT !.error_file = Some(args[i + 1]),
                          !.append_error = @ \/ args[i] \in OpErrAppend]

\* the capture made by an operator at position i that has a following token
Capture(r, args, i) ==
    IF args[i] \in OpOutTrunc
    THEN [r EXCEPT !.output_file = Some(args[i + 1])]
    ELSE IF args[i] \in OpErrTrunc
    THEN [r EXCEPT !.error_file = Some(args[i + 1])]
    ELSE IF args[i] \in OpOutAppend
    THEN [r EXCEPT !.output_file = Some(args[i + 1]), !.append_output = TRUE]
    ELSE [r EXCEPT !.error_file = Some(args[i + 1]), !.append_error = TRUE]

\* a mutant of TrailingOperator: the token is pushed like an ordinary token
TrailingOperatorPushed(r, args, i) ==
    [r EXCEPT !.cmd_args = Push(r.cmd_args, args[i])]

\* the arm of an operator that is the last token: its `if` fails, the arm ends
\* and only `i += 1` runs, so nothing is pushed
TrailingOperator(r, args, i) == r

\* the `_` arm
OrdinaryToken(r, args, i) == [r EXCEPT !.cmd_args = Push(r.cmd_args, args[i])]

\* a mutant of IsOperator: a token that begins with an operator matches
IsOperatorPrefix(tok) ==
    \E op \in Operators : Len(tok) >= Len(op) /\ SubSeq(tok, 1, Len(op)) = op

\* `match args[i].as_str()`: a token selects an operator arm by string equality
IsOperator(tok) == tok \in Operators

RECURSIVE RedirScan(_, _, _)
\* the while loop, from the cursor i (1-based)
RedirScan(r, args, i) ==
    IF i > Len(args) THEN r
    ELSE IF IsOperator(args[i])
    THEN IF i + 1 <= Len(args)
         THEN RedirScan(Capture(r, args, i), args, i + 2)
         ELSE RedirScan(TrailingOperator(r, args, i), args, i + 1)
    ELSE RedirScan(OrdinaryToken(r, args, i), args, i + 1)

parse_redirection(args) == RedirScan(RedirInit, args, 1)

-----------------------------------------------------------------------------
(* The environment of the process *)

\* a line written by a format macro: the format string and its arguments
Msg(fmt, args) == [fmt |-> fmt, args |-> args]

W_cd == <<"c", "d">>

W_pwd == <<"p", "w", "d">>

W_ls == <<"l", "s">>

W_zz == <<"z", "z">>

W_tmp == <<"/", "t", "m", "p">>

W_o == <<"o">>

\* dirs::home_dir()
home_dir == <<"/", "h">>

\* the directories of the file system
Dirs == {<<"/">>, W_tmp, home_dir, <<"/", "b">>, <<"/", "u">>}

\* env::var("PATH"): /n is missing, /b and /u hold an entry named ls
PATH == <<"/", "n", ":", "/", "b", ":", "/", "u">>

\* fs::read_dir(path): the entries of a directory, or None when it cannot be listed
read_dir(path) ==
    IF path = <<"/", "b">> THEN Some(<<<<"c", "a", "t">>, W_ls>>)
    ELSE IF path = <<"/", "u">> THEN Some(<<W_ls>>)
    ELSE IF path = W_tmp THEN Some(<<>>)
    ELSE None

\* a path as the operating system resolves it against the current directory
Resolve(cwd, path) ==
    IF path # <<>> /\ path[1] = "/" THEN path
    ELSE IF cwd = <<"/">> THEN cwd \o path
    ELSE cwd \o <<"/">> \o path

RECURSIVE SplitFrom(_, _, _, _)
\* str.split(sep), from position i with the piece cur under construction
SplitFrom(str, sep, i, cur) ==
    IF i > Len(str) THEN <<cur>>
    ELSE IF str[i] = sep THEN <<cur>> \o SplitFrom(str, sep, i + 1, <<>>)
    ELSE SplitFrom(str, sep, i + 1, Append(cur, str[i]))

Split(str, sep) == SplitFrom(str, sep, 1, <<>>)

RECURSIVE TrimStart(_)
TrimStart(str) ==
    IF str # <<>> /\ is_whitespace(Head(str)) THEN TrimStart(Tail(str)) ELSE str

RECURSIVE TrimEnd(_)
TrimEnd(str) ==
    IF str # <<>> /\ is_whitespace(str[Len(str)])
    THEN TrimEnd(SubSeq(str, 1, Len(str) - 1)) ELSE str

\* str::trim
Trim(str) == TrimEnd(TrimStart(str))

-----------------------------------------------------------------------------
(* The sinks: Box<dyn Write> *)

\* the part of the process a command can change
World ==
    [files |-> files, stdout |-> stdout, stderr |-> stderr, os_cwd |-> os_cwd,
     CURRENT_DIR |-> CURRENT_DIR, called |-> called, panicked |-> FALSE]

\* Box::new(std::io::stdout())
StdoutSink == [kind |-> "stdout"]

\* Box::new(std::io::stderr())
StderrSink == [kind |-> "stderr"]

\* Box::new(BufWriter::new(file))
FileSink(path, append) == [kind |-> "file", path |-> path, append |-> append]

\* the content of a file after a handle wrote data: at the end for a handle
\* opened for append, from the start of the file for a handle made by create
FileWrite(content, append, data) ==
    IF append THEN content \o data
    ELSE data \o SubSeq(content, Len(data) + 1, Len(content))

\* write_all / writeln! on a sink
WriteSink(w, sink, data) ==
    IF sink.kind = "stdout" THEN [w EXCEPT !.stdout = @ \o data]
    ELSE IF sink.kind = "stderr" THEN [w EXCEPT !.stderr = @ \o data]
    ELSE [w EXCEPT !.files[sink.path] = FileWrite(@, sink.append, data)]

\* eprintln!
Eprintln(w, msg) == [w EXCEPT !.stderr = Append(@, msg)]

\* opening a file for writing fails on a directory
OpenFails(w, target) == Resolve(w.os_cwd, target) \in Dirs

\* the files after OpenOptions::new().append(true).create(true).open (append)
\* or File::create (not append) succeeded
Opened(fs, path, append) ==
    [p \in DOMAIN fs \cup {path} |->
        IF p = path
        THEN IF append /\ p \in DOMAIN fs THEN fs[p] ELSE <<>>
        ELSE fs[p]]

-----------------------------------------------------------------------------
(* The command namespace and the built-in handlers *)

\* is_builtin: the message of a reserved name, or None
is_builtin(cmd) ==
    IF cmd = W_pwd THEN Some(<<"pwd is a shell builtin">>)
    ELSE IF cmd = W_cd THEN Some(<<"cd is a shell builtin">>)
    ELSE None

\* CMD_MAP: the handler of each built-in command
CMD_MAP == [name \in {W_cd, W_pwd} |-> IF name = W_cd THEN "handle_cd" ELSE "handle_pwd"]

\* the directory handle_cd changes to: home for no argument, a leading ~
\* replaced by home
target_dir(args) ==
    IF args = <<>> THEN home_dir
    ELSE IF args[1] # <<>> /\ args[1][1] = "~" THEN home_dir \o Tail(args[1])
    ELSE args[1]

\* env::set_current_dir succeeds on an existing directory
SetCurrentDirOk(w, dir) == dir # <<>> /\ Resolve(w.os_cwd, dir) \in Dirs

\* the reason handle_cd prints: the text of the system error after its first
\* colon, which is empty for the errors of the model and so replaced
CdErrorMessage == <<"No such file or directory">>

\* a mutant of handle_cd: the shared value is set before the call is checked
handle_cdSetsFirst(w, args, handle) ==
    LET dir == target_dir(args)
    IN  IF ~SetCurrentDirOk(w, dir)
        THEN [WriteSink(w, handle, <<Msg("cd: {}: {}", <<dir, CdErrorMessage>>)>>)
                 EXCEPT !.CURRENT_DIR = dir, !.called = "handle_cd"]
        ELSE [WriteSink(w, handle, <<Msg("Changed directory to: {}", <<dir>>)>>)
                 EXCEPT !.os_cwd = Resolve(w.os_cwd, dir),
                        !.CURRENT_DIR = dir,
                        !.called = "handle_cd"]

handle_cd(w, args, handle) ==
    LET dir == target_dir(args)
    IN  IF ~SetCurrentDirOk(w, dir)
        THEN [WriteSink(w, handle, <<Msg("cd: {}: {}", <<dir, CdErrorMessage>>)>>)
                 EXCEPT !.called = "handle_cd"]
        ELSE [WriteSink(w, handle, <<Msg("Changed directory to: {}", <<dir>>)>>)
                 EXCEPT !.os_cwd = Resolve(w.os_cwd, dir),
                        !.CURRENT_DIR = dir,
                        !.called = "handle_cd"]

handle_pwd(w, args, handle) ==
    [WriteSink(w, handle, <<Msg("{}", <<w.CURRENT_DIR>>)>>) EXCEPT !.called = "handle_pwd"]

\* builtin_cmd_handler(args, handle)
CallHandler(handler, w, args, handle) ==
    IF handler = "handle_cd" THEN handle_cd(w, args, handle)
    ELSE handle_pwd(w, args, handle)

-----------------------------------------------------------------------------
(* check_cmd_in_path *)

\* the position of the first entry named cmd, or 0
FirstEntry(entries, cmd) ==
    LET P == {k \in 1..Len(entries) : entries[k] = cmd}
    IN  IF P = {} THEN 0 ELSE CHOOSE k \in P : \A j \in P : k <= j

RECURSIVE SearchPathLastMatch(_, _, _)
\* a loop over the directories that keeps the last match instead of returning
\* at the first one
SearchPathLastMatch(paths, cmd, k) ==
    IF k > Len(paths) THEN None
    ELSE LET later == SearchPathLastMatch(paths, cmd, k + 1)
             listing == read_dir(paths[k])
         IN  IF later # None THEN later
             ELSE IF listing # None /\ FirstEntry(listing[1], cmd) > 0
             THEN Some([dir |-> paths[k], file_name |-> cmd])
             ELSE None

RECURSIVE SearchPath(_, _, _)
\* the loop over the directories of the path, from directory k
SearchPath(paths, cmd, k) ==
    IF k > Len(paths) THEN None
    ELSE LET listing == read_dir(paths[k])
         IN  IF listing # None /\ FirstEntry(listing[1], cmd) > 0
             THEN Some([dir |-> paths[k], file_name |-> cmd])
             ELSE SearchPath(paths, cmd, k + 1)

\* check_cmd_in_path when env::var("PATH") gives path_var: None when the
\* variable is not set
check_cmd_in(path_var, cmd) ==
    IF path_var = None THEN None
    ELSE SearchPath(Split(path_var[1], ":"), cmd, 1)

check_cmd_in_path(cmd) == check_cmd_in(Some(PATH), cmd)

-----------------------------------------------------------------------------
(* handle_cmd: the dispatcher *)

\* what the child process wrote to its standard output
ChildStdout(cmd, args) == <<Msg("{stdout of the child}", <<cmd>> \o args)>>

\* what the child process wrote to its standard error
ChildStderr(cmd, args) == <<Msg("{stderr of the child}", <<cmd>> \o args)>>

\* the panic of `args[0]` on an empty vector: the message goes to standard
\* error and the process ends
IndexPanic(w) ==
    [Eprintln(w, Msg("thread 'main' panicked: index out of bounds: the len is 0 but the index is 0", <<>>))
        EXCEPT !.panicked = TRUE, !.called = "panic"]

\* a mutant of OpenFailed: the failure is reported and the line goes on
OpenFailedGoesOn(w, fmt, target, default) ==
    [ok |-> TRUE, w |-> Eprintln(w, Msg(fmt, <<target, <<"Is a directory (os error 21)">>>>)),
     handle |-> default]

\* the Err arm of an open: the message to standard error, then return
OpenFailed(w, fmt, target, default) ==
    [ok |-> FALSE,
     w |-> [Eprintln(w, Msg(fmt, <<target, <<"Is a directory (os error 21)">>>>))
               EXCEPT !.called = "open_failed"],
     handle |-> default]

\* `if let Some(output_file) = output_file`: the sink of standard output
AcquireOutput(w, r) ==
    IF r.output_file = None THEN [ok |-> TRUE, w |-> w, handle |-> StdoutSink]
    ELSE LET target == r.output_file[1]
         IN  IF OpenFails(w, target)
             THEN OpenFailed(w, IF r.append_output
                                THEN "Failed to open output file {}: {}"
                                ELSE "Failed to create output file {}: {}",
                             target, StdoutSink)
             ELSE [ok |-> TRUE,
                   w |-> [w EXCEPT !.files =
                             Opened(@, Resolve(w.os_cwd, target), r.append_output)],
                   handle |-> FileSink(Resolve(w.os_cwd, target), r.append_output)]

\* `if let Some(error_file) = error_file`: the sink of standard error
AcquireError(w, r) ==
    IF r.error_file = None THEN [ok |-> TRUE, w |-> w, handle |-> StderrSink]
    ELSE LET target == r.error_file[1]
         IN  IF OpenFails(w, target)
             THEN OpenFailed(w, IF r.append_error
                                THEN "Failed to open error file {}: {}"
                                ELSE "Failed to create error file {}: {}",
                             target, StderrSink)
             ELSE [ok |-> TRUE,
                   w |-> [w EXCEPT !.files =
                             Opened(@, Resolve(w.os_cwd, target), r.append_error)],
                   handle |-> FileSink(Resolve(w.os_cwd, target), r.append_error)]

\* the branch of a reserved name: the message, but not for cd and pwd
ReservedName(w, cmd, handle) ==
    IF cmd # W_cd /\ cmd # W_pwd
    THEN [WriteSink(w, handle, <<Msg("{}", <<is_builtin(cmd)[1]>>)>>)
             EXCEPT !.called = "builtin_message"]
    ELSE [w EXCEPT !.called = "reserved_name"]

\* the branch of a command found on the path: the handles are flushed when
\* they are dropped, stderr_handle before handle
External(w, cmd, args, handle, stderr_handle, launched) ==
    IF launched
    THEN [WriteSink(WriteSink(w, stderr_handle, ChildStderr(cmd, args)),
                    handle, ChildStdout(cmd, args))
             EXCEPT !.called = "external"]
    ELSE [WriteSink(w, handle,
                    <<Msg("{}: {}", <<check_cmd_in_path(cmd)[1].file_name,
                                      <<"Permission denied (os error 13)">>>>)>>)
             EXCEPT !.called = "launch_failed"]

\* a mutant of NotFound: the message goes to the sink of the error redirection
NotFoundToErrorSink(w, cmd, stderr_handle) ==
    [WriteSink(w, stderr_handle, <<Msg("{}: command not found", <<cmd>>)>>)
        EXCEPT !.called = "not_found"]

\* the last branch: eprintln!("{}: command not found", cmd)
NotFound(w, cmd, stderr_handle) ==
    [Eprintln(w, Msg("{}: command not found", <<cmd>>)) EXCEPT !.called = "not_found"]

\* the chain that resolves the command
Dispatch(w, cmd, args, handle, stderr_handle, launched) ==
    IF is_builtin(cmd) # None THEN ReservedName(w, cmd, handle)
    ELSE IF cmd \in DOMAIN CMD_MAP THEN CallHandler(CMD_MAP[cmd], w, args, handle)
    ELSE IF check_cmd_in_path(cmd) # None
    THEN External(w, cmd, args, handle, stderr_handle, launched)
    ELSE NotFound(w, cmd, stderr_handle)

\* handle_cmd(cmd) in the world w; launched tells whether the operating
\* system could start the child process
handle_cmd(w, cmd, launched) ==
    LET args == handle_quotes(cmd)
    IN  IF args = <<>> THEN [w EXCEPT !.called = "nothing"]
        ELSE LET r == parse_redirection(args)
             IN  IF r.cmd_args = <<>> THEN IndexPanic(w)
                 ELSE LET out == AcquireOutput(w, r)
                      IN  IF ~out.ok THEN out.w
                          ELSE LET err == AcquireError(out.w, r)
                               IN  IF ~err.ok THEN err.w
                                   ELSE Dispatch(err.w, Head(r.cmd_args), Tail(r.cmd_args),
                                                 out.handle, err.handle, launched)

-----------------------------------------------------------------------------
(* main: the read loop *)

\* the command names typed at the prompt: the two built-ins, a command found
\* on the path and one that is not
CmdWords == {W_cd, W_pwd, W_ls, W_zz}

\* the arguments typed after a command: none, a directory, a name that is no
\* directory
ArgLists == {<<>>, <<W_tmp>>, <<W_o>>}

\* the redirections typed after them: none, one operator with a file or a
\* directory as its target, an operator with nothing after it, an output
\* and an error redirection, an appending and then a truncating output
\* redirection
Redirections ==
    {<<>>, <<<<">">>>>}
    \cup {<<op, t>> : op \in {<<">">>, <<">", ">">>, <<"2", ">">>}, t \in {W_o, W_tmp}}
    \cup {<<<<">">>, t, <<"2", ">">>, u>> : t \in {W_o, W_tmp}, u \in {<<"e">>, W_tmp}}
    \cup {<<<<">", ">">>, <<"e">>, <<">">>, W_o>>}

\* the lines typed at the prompt, without their newline: a command, its
\* arguments and its redirections separated by single spaces; redirections
\* with no command; a blank line and an empty line
Lines ==
    {Join(<<c>> \o a \o r) : c \in CmdWords, a \in ArgLists, r \in Redirections}
    \cup {Join(r) : r \in Redirections}
    \cup {<<" ">>}

\* the content of a file that exists before the shell starts
OldContent == <<Msg("{old content}", <<>>)>>

Init ==
    /\ pc = "prompt"
    /\ input = <<>>
    /\ eof = FALSE
    /\ nread = 0
    /\ CURRENT_DIR = <<"/">>
    /\ os_cwd \in {<<"/">>, home_dir}
    /\ files \in {[p \in {} |-> <<>>], [p \in {Resolve(os_cwd, W_o)} |-> OldContent]}
    /\ stdout = <<>>
    /\ stderr = <<>>
    /\ called = "nothing"
    /\ last_cd = None
    /\ fn = "main"
    /\ arg_in = <<>>
    /\ ret = None

\* print!("$ "); io::stdout().flush(): the prompt opens a new window of
\* observation of the two standard streams
Prompt ==
    /\ pc = "prompt"
    /\ stdout' = <<Msg("$ ", <<>>)>>
    /\ stderr' = <<>>
    /\ pc' = "read"
    /\ UNCHANGED <<input, eof, nread, CURRENT_DIR, os_cwd, files, called, last_cd,
                   fn, arg_in, ret>>

\* stdin.read_line(&mut input) reads a line: it is appended with its newline
ReadLine ==
    /\ pc = "read"
    /\ ~eof
    /\ nread < MaxLines
    /\ \E l \in Lines : input' = input \o l \o <<"\n">>
    /\ nread' = nread + 1
    /\ pc' = "handle"
    /\ UNCHANGED <<eof, CURRENT_DIR, os_cwd, files, stdout, stderr, called, last_cd,
                   fn, arg_in, ret>>

\* stdin.read_line(&mut input) at end of input: Ok(0), nothing is appended
ReadEof ==
    /\ pc = "read"
    /\ eof' = TRUE
    /\ pc' = "handle"
    /\ UNCHANGED <<input, nread, CURRENT_DIR, os_cwd, files, stdout, stderr, called,
                   last_cd, fn, arg_in, ret>>

\* `if cmd.is_empty() { input.clear(); continue; }`
HandleEmpty ==
    /\ pc = "handle"
    /\ Trim(input) = <<>>
    /\ input' = <<>>
    /\ pc' = "prompt"
    /\ UNCHANGED <<eof, nread, CURRENT_DIR, os_cwd, files, stdout, stderr, called,
                   last_cd, fn, arg_in, ret>>

\* the directory a line asks to change to, when it is a cd line whose sinks
\* can be opened and whose target is an existing directory; None otherwise
SuccessfulCd(w, cmd) ==
    LET r == parse_redirection(handle_quotes(cmd))
    IN  IF /\ r.cmd_args # <<>>
           /\ Head(r.cmd_args) = W_cd
           /\ (r.output_file # None => ~OpenFails(w, r.output_file[1]))
           /\ (r.error_file # None => ~OpenFails(w, r.error_file[1]))
           /\ SetCurrentDirOk(w, target_dir(Tail(r.cmd_args)))
        THEN Some(target_dir(Tail(r.cmd_args)))
        ELSE None

\* `handle_cmd(cmd); input.clear();`
HandleCmd ==
    /\ pc = "handle"
    /\ Trim(input) # <<>>
    /\ \E launched \in BOOLEAN :
          LET w == handle_cmd(World, Trim(input), launched)
          IN  /\ files' = w.files
              /\ stdout' = w.stdout
              /\ stderr' = w.stderr
              /\ os_cwd' = w.os_cwd
              /\ CURRENT_DIR' = w.CURRENT_DIR
              /\ called' = w.called
              /\ pc' = IF w.panicked THEN "panicked" ELSE "prompt"
              /\ input' = IF w.panicked THEN input ELSE <<>>
    /\ last_cd' = IF SuccessfulCd(World, Trim(input)) # None
                  THEN SuccessfulCd(World, Trim(input)) ELSE last_cd
    /\ UNCHANGED <<eof, nread, fn, arg_in, ret>>

Next == Prompt \/ ReadLine \/ ReadEof \/ HandleEmpty \/ HandleCmd

Spec == Init /\ [][Next]_vars

-----------------------------------------------------------------------------
(* Specifications of the pure functions: Init draws the argument, the      *)
(* action applies the function.                                            *)

\* the characters of the lines given to the tokenizer
TokChars == {"a", "b", " ", "\t", SQUOTE, DQUOTE, BACKSLASH, "$"}

\* the tokens given to parse_redirection: the six operators, two plain words,
\* and two words that only begin with an operator (">a" and "2>&1")
RedirTokens ==
    Operators \cup {<<"a">>, <<"b">>, <<">", "a">>, <<"2", ">", "&", "1">>}

\* the shell's variables while a pure function is under check
ShellIdle ==
    /\ pc = "idle"
    /\ input = <<>>
    /\ eof = FALSE
    /\ nread = 0
    /\ CURRENT_DIR = <<"/">>
    /\ os_cwd = <<"/">>
    /\ files = <<>>
    /\ stdout = <<>>
    /\ stderr = <<>>
    /\ called = "nothing"
    /\ last_cd = <<>>

InitTok ==
    /\ ShellIdle
    /\ fn = "handle_quotes"
    /\ arg_in \in SeqsUpTo(TokChars, MaxLen)
    /\ ret = None

CallHandleQuotes ==
    /\ fn = "handle_quotes"
    /\ ret = None
    /\ ret' = Some(handle_quotes(arg_in))
    /\ UNCHANGED <<shellVars, fn, arg_in>>

SpecTok == InitTok /\ [][CallHandleQuotes]_vars

InitRedir ==
    /\ ShellIdle
    /\ fn = "parse_redirection"
    /\ arg_in \in SeqsUpTo(RedirTokens, MaxTokens)
    /\ ret = None

CallParseRedirection ==
    /\ fn = "parse_redirection"
    /\ ret = None
    /\ ret' = Some(parse_redirection(arg_in))
    /\ UNCHANGED <<shellVars, fn, arg_in>>

SpecRedir == InitRedir /\ [][CallParseRedirection]_vars

-----------------------------------------------------------------------------
(* Claims about parse_redirection, checked under SpecRedir *)

\* the result of the call, once made
RedirResult == ret[1]

RECURSIVE IsOperand(_, _)
\* the token at position i is the filename operand of an operator: the token
\* before it is an operator that is not itself an operand
IsOperand(args, i) ==
    /\ i > 1
    /\ args[i - 1] \in Operators
    /\ ~IsOperand(args, i - 1)

\* the token at position i is an operator that captures the token after it
IsConsumedOperator(args, i) ==
    /\ args[i] \in Operators
    /\ ~IsOperand(args, i)
    /\ i < Len(args)

\* the last token is an operator with no filename after it
HasTrailingOperator(args) ==
    /\ Len(args) > 0
    /\ args[Len(args)] \in Operators
    /\ ~IsOperand(args, Len(args))

\* the subsequence of s at the positions in P, in order
RECURSIVE SubseqAt(_, _, _)
SubseqAt(s, P, i) ==
    IF i > Len(s) THEN <<>>
    ELSE (IF i \in P THEN <<s[i]>> ELSE <<>>) \o SubseqAt(s, P, i + 1)

\* the sequence s without its last element
Front(s) == SubSeq(s, 1, Len(s) - 1)

\* C4 as claimed: an operator that is the last token, with no filename after
\* it, is appended to the residual argument vector at its position (the end),
\* and it sets no target and no append flag.
C4_TrailingOperatorIsArgument ==
    (ret # None /\ HasTrailingOperator(arg_in)) =>
        /\ RedirResult.cmd_args =
               Push(parse_redirection(Front(arg_in)).cmd_args, arg_in[Len(arg_in)])
        /\ RedirResult.output_file = parse_redirection(Front(arg_in)).output_file
        /\ RedirResult.error_file = parse_redirection(Front(arg_in)).error_file

\* C4 amended: an operator that is the last token and is not itself the
\* filename of the operator before it is dropped: it is not in the residual
\* argument vector, and it sets no target and no append flag, so the result
\* is that of the token sequence without it.
C4_TrailingOperatorIsDropped ==
    (ret # None /\ HasTrailingOperator(arg_in)) =>
        /\ RedirResult = parse_redirection(Front(arg_in))
        /\ Len(RedirResult.cmd_args) < Len(arg_in)
        /\ \A k \in 1..Len(RedirResult.cmd_args) : RedirResult.cmd_args[k] \notin Operators

\* C4 witness: a parsed sequence with an ordinary argument and a trailing operator
C4_Witness ==
    /\ ret # None
    /\ HasTrailingOperator(arg_in)
    /\ Len(arg_in) >= 2
    /\ RedirResult.cmd_args # <<>>

\* the position of the last operator among ops that captures a filename, or 0
LastConsumed(args, ops) ==
    LET P == {i \in 1..Len(args) : IsConsumedOperator(args, i) /\ args[i] \in ops}
    IN  IF P = {} THEN 0 ELSE CHOOSE i \in P : \A j \in P : j <= i

\* C5 as claimed: when operators of one stream repeat, the surviving target and
\* its append flag are both those of the last operator of that stream that has
\* a following token (">> a > b" gives target b with append FALSE).
C5_LastOperatorWins ==
    ret # None =>
        LET o == LastConsumed(arg_in, OpOutTrunc \cup OpOutAppend)
            e == LastConsumed(arg_in, OpErrTrunc \cup OpErrAppend)
        IN  /\ o > 0 => /\ RedirResult.output_file = Some(arg_in[o + 1])
                        /\ RedirResult.append_output = (arg_in[o] \in OpOutAppend)
            /\ e > 0 => /\ RedirResult.error_file = Some(arg_in[e + 1])
                        /\ RedirResult.append_error = (arg_in[e] \in OpErrAppend)

\* C6: the residual argument vector is exactly the order-preserving subsequence
\* of the tokens that are neither one of the six operators nor the token
\* right after an operator that captured it.
C6_ResidualExcludesRedirections ==
    ret # None =>
        RedirResult.cmd_args =
            SubseqAt(arg_in,
                     {i \in 1..Len(arg_in) :
                         arg_in[i] \notin Operators /\ ~IsOperand(arg_in, i)},
                     1)

\* C6 witness: a parsed sequence with an operator, its filename and arguments
\* on both sides
C6_Witness ==
    /\ ret # None
    /\ Len(arg_in) = 4
    /\ IsConsumedOperator(arg_in, 2)
    /\ arg_in[1] \notin Operators
    /\ arg_in[4] \notin Operators
    /\ Len(RedirResult.cmd_args) = 2

\* the positions of the six operators in args
OperatorPositions(args) == {i \in 1..Len(args) : args[i] \in Operators}

\* C7: with exactly one operator, followed by a filename f, the result is the
\* other tokens in order, f as the target of the operator's stream, that
\* stream's append flag TRUE exactly for the appending operators, and the other
\* stream absent with its flag FALSE; with no operator at all (words such as
\* ">a" or "2>&1" are not operators) every token is an argument and no stream
\* has a target.
C7_SingleOperator ==
    ret # None =>
        /\ (\E i \in 1..(Len(arg_in) - 1) : OperatorPositions(arg_in) = {i}) =>
              LET i == CHOOSE j \in 1..Len(arg_in) : OperatorPositions(arg_in) = {j}
                  isOut == arg_in[i] \in OpOutTrunc \cup OpOutAppend
                  isApp == arg_in[i] \in OpOutAppend \cup OpErrAppend
              IN  /\ RedirResult.cmd_args =
                         SubseqAt(arg_in, (1..Len(arg_in)) \ {i, i + 1}, 1)
                  /\ RedirResult.output_file = IF isOut THEN Some(arg_in[i + 1]) ELSE None
                  /\ RedirResult.error_file = IF isOut THEN None ELSE Some(arg_in[i + 1])
                  /\ RedirResult.append_output = (isOut /\ isApp)
                  /\ RedirResult.append_error = (~isOut /\ isApp)
        /\ OperatorPositions(arg_in) = {} => RedirResult = [RedirInit EXCEPT !.cmd_args = arg_in]

\* C7 witness: a parsed sequence with one appending error operator, its
\* filename, and a word that begins with an operator kept as an argument
C7_Witness ==
    /\ ret # None
    /\ Len(arg_in) = 4
    /\ OperatorPositions(arg_in) = {2}
    /\ arg_in[2] \in OpErrAppend
    /\ arg_in[4] = <<">", "a">>
    /\ RedirResult.cmd_args = <<arg_in[1], arg_in[4]>>

-----------------------------------------------------------------------------
(* Claims about handle_quotes, checked under SpecTok *)

\* the tokens returned by the call, once made
Tokens == ret[1]

QuoteChars == {SQUOTE, DQUOTE}

\* the positions of s, in order, whose character satisfies Test
PositionsOf(s, Test(_)) ==
    LET Keep(i) == Test(s[i])
    IN  SelectSeq([i \in 1..Len(s) |-> i], Keep)

\* the quote characters of the line pair up in order, each pair of one kind:
\* the quotes are balanced and no quote character stands inside a quoted region
WellQuoted(line) ==
    LET IsQuote(c) == c \in QuoteChars
        qp == PositionsOf(line, IsQuote)
    IN  /\ Len(qp) % 2 = 0
        /\ \A k \in 1..(Len(qp) \div 2) : line[qp[2 * k - 1]] = line[qp[2 * k]]

NoBackslash(line) == \A i \in 1..Len(line) : line[i] # BACKSLASH

\* in a well-quoted line, position i lies inside a quoted region
InsideQuotes(line, i) ==
    Cardinality({j \in 1..(i - 1) : line[j] \in QuoteChars}) % 2 = 1

RECURSIVE Rebuild(_, _, _, _)
\* the characters of str at the positions keep (in order), with one space
\* wherever a position of sep lies between two of them
Rebuild(str, keep, sep, k) ==
    IF k > Len(keep) THEN <<>>
    ELSE (IF k > 1 /\ \E j \in sep : keep[k - 1] < j /\ j < keep[k]
          THEN <<" ">> ELSE <<>>)
         \o <<str[keep[k]]>> \o Rebuild(str, keep, sep, k + 1)

\* the line without its quote characters
StripQuotes(line) ==
    LET NotQuote(c) == c \notin QuoteChars
    IN  SelectSeq(line, NotQuote)

\* whitespace runs collapsed to one space, and trimmed at both ends
NormalizeWhitespace(str) ==
    LET NotSpace(c) == c \notin WhiteSpace
    IN  Rebuild(str, PositionsOf(str, NotSpace),
                {i \in 1..Len(str) : str[i] \in WhiteSpace}, 1)

\* the line without its quote characters, whitespace outside quotes collapsed
\* to one space and trimmed, whitespace inside quotes kept as it is
NormalizeUnquotedWhitespace(line) ==
    LET seps == {i \in 1..Len(line) :
                    line[i] \in WhiteSpace /\ ~InsideQuotes(line, i)}
        keep == SelectSeq([i \in 1..Len(line) |-> i],
                          LAMBDA i : line[i] \notin QuoteChars /\ i \notin seps)
    IN  Rebuild(line, keep, seps, 1)

\* C8 as claimed: for a line with balanced, non-nested quotes and no backslash,
\* the tokens joined with single spaces are the line with its quote characters
\* stripped and its whitespace normalized (runs collapsed, ends trimmed).
C8_JoinIsNormalizedStripped ==
    (ret # None /\ WellQuoted(arg_in) /\ NoBackslash(arg_in)) =>
        Join(Tokens) = NormalizeWhitespace(StripQuotes(arg_in))

\* C8 amended: for such a line, the tokens joined with single spaces are the
\* line with its quote characters stripped and only the whitespace outside
\* quotes normalized; whitespace inside a quoted region is kept as written.
C8_JoinIsNormalizedOutsideQuotes ==
    (ret # None /\ WellQuoted(arg_in) /\ NoBackslash(arg_in)) =>
        Join(Tokens) = NormalizeUnquotedWhitespace(arg_in)

\* C8 witness: a tokenized well-quoted line with whitespace inside quotes,
\* whitespace outside quotes, and two tokens
C8_Witness ==
    /\ ret # None
    /\ WellQuoted(arg_in)
    /\ NoBackslash(arg_in)
    /\ \E i \in 1..Len(arg_in) : arg_in[i] \in WhiteSpace /\ InsideQuotes(arg_in, i)
    /\ \E i \in 1..Len(arg_in) : arg_in[i] \in WhiteSpace /\ ~InsideQuotes(arg_in, i)
    /\ Len(Tokens) = 2

-----------------------------------------------------------------------------
(* Claims about the dispatcher, checked under Spec.  They are statements   *)
(* about the step that handles a line: the line is in `input` before the   *)
(* step, and the primed variables are the process after it.                *)

\* the line handle_cmd is about to be given
Cmd == Trim(input)

\* the tokens of that line split into arguments and redirections
Plan == parse_redirection(handle_quotes(Cmd))

\* main is about to handle a line that names a command
HandlingCommand == pc = "handle" /\ Cmd # <<>> /\ Plan.cmd_args # <<>>

\* the command name of the line
CmdName == Head(Plan.cmd_args)

\* the output target of the line cannot be opened
OutputOpenFails == Plan.output_file # None /\ Resolve(os_cwd, Plan.output_file[1]) \in Dirs

\* the error target of the line cannot be opened
ErrorOpenFails == Plan.error_file # None /\ Resolve(os_cwd, Plan.error_file[1]) \in Dirs

\* some listable directory of the search path has an entry named cmd
OnSearchPath(cmd) ==
    \E k \in 1..Len(Split(PATH, ":")) :
        LET listing == read_dir(Split(PATH, ":")[k])
        IN  listing # None /\ \E j \in 1..Len(listing[1]) : listing[1][j] = cmd

\* the step wrote to no file: every file is empty or as it was
NoFileWritten ==
    \A p \in DOMAIN files' : files'[p] = <<>> \/ (p \in DOMAIN files /\ files'[p] = files[p])

\* C1 as claimed: for a line whose command name is cd or pwd (and whose sinks
\* open), no "is a shell builtin" message is written and the handler of the
\* command is invoked with the output sink: pwd with standard output as its
\* sink writes the working directory there.
C1_BuiltinsRunTheirHandler ==
    [][(HandlingCommand /\ CmdName \in {W_cd, W_pwd}
            /\ ~OutputOpenFails /\ ~ErrorOpenFails) =>
        /\ called' = CMD_MAP[CmdName]
        /\ (CmdName = W_pwd /\ Plan.output_file = None) =>
               stdout' = Append(stdout, Msg("{}", <<CURRENT_DIR>>))]_vars

\* C2 as claimed: a pwd line writes to its output sink (here standard output)
\* exactly the target of the most recent successful cd line.
C2_PwdPrintsLastCd ==
    [][(HandlingCommand /\ CmdName = W_pwd /\ Plan.output_file = None
            /\ ~ErrorOpenFails /\ last_cd # None) =>
        stdout' = Append(stdout, Msg("{}", <<last_cd[1]>>))]_vars

\* C3 as claimed: a line whose residual argument vector is empty is a no-op:
\* nothing is run or written and control returns to the read loop.
C3_EmptyResidualIsNoOp ==
    [][(pc = "handle" /\ Cmd # <<>> /\ Plan.cmd_args = <<>>) =>
        /\ pc' = "prompt"
        /\ UNCHANGED <<files, stdout, stderr, CURRENT_DIR, os_cwd>>]_vars

\* C9: when the output target, or else the error target, of a line cannot be
\* opened, one message naming the target goes to the standard error of the
\* process and the line is abandoned: no handler, no path search, no child
\* process, the directories unchanged, nothing written to standard output or
\* to any file, and control back at the prompt.
C9_OpenFailureAbandonsLine ==
    [][(HandlingCommand /\ (OutputOpenFails \/ ErrorOpenFails)) =>
        /\ Len(stderr') = Len(stderr) + 1
        /\ SubSeq(stderr', 1, Len(stderr)) = stderr
        /\ stderr'[Len(stderr')].args[1] =
               (IF OutputOpenFails THEN Plan.output_file[1] ELSE Plan.error_file[1])
        /\ called' = "open_failed"
        /\ stdout' = stdout
        /\ NoFileWritten
        /\ OutputOpenFails => files' = files
        /\ UNCHANGED <<CURRENT_DIR, os_cwd>>
        /\ pc' = "prompt"]_vars

\* C9 witness: a line whose output file was opened and emptied and whose
\* error target could not be created
C9_Witness ==
    /\ called = "open_failed"
    /\ pc = "prompt"
    /\ stderr # <<>>
    /\ stderr[Len(stderr)].fmt = "Failed to create error file {}: {}"
    /\ \E p \in DOMAIN files : files[p] = <<>>

\* C10 as claimed: for a command name that is neither reserved nor on the
\* search path, the dispatcher writes exactly "<command>: command not found"
\* to the standard error of the process, whatever the redirections of the
\* line, and nothing to the output sink.
C10_NotFoundAlways ==
    [][(HandlingCommand /\ CmdName \notin {W_cd, W_pwd} /\ ~OnSearchPath(CmdName)) =>
        /\ stderr' = Append(stderr, Msg("{}: command not found", <<CmdName>>))
        /\ stdout' = stdout
        /\ NoFileWritten]_vars

\* C10 amended: for such a command name on a line whose redirection targets,
\* if any, could be opened, the dispatcher writes exactly
\* "<command>: command not found" to the standard error of the process, also
\* when the line redirects the error stream, and nothing to the output sink.
C10_NotFoundWhenSinksOpen ==
    [][(HandlingCommand /\ CmdName \notin {W_cd, W_pwd} /\ ~OnSearchPath(CmdName)
            /\ ~OutputOpenFails /\ ~ErrorOpenFails) =>
        /\ stderr' = Append(stderr, Msg("{}: command not found", <<CmdName>>))
        /\ called' = "not_found"
        /\ stdout' = stdout
        /\ NoFileWritten]_vars

\* C10 witness: a command that was not found on a line that redirected the
\* error stream to a file: the message is on standard error, the file empty
\* (stdout holds the prompt alone)
C10_Witness ==
    /\ called = "not_found"
    /\ pc = "prompt"
    /\ stderr = <<Msg("{}: command not found", <<W_zz>>)>>
    /\ stdout = <<Msg("$ ", <<>>)>>
    /\ Resolve(os_cwd, <<"e">>) \in DOMAIN files
    /\ files[Resolve(os_cwd, <<"e">>)] = <<>>

-----------------------------------------------------------------------------
(* Specification of the built-in handlers called on their own: a sequence  *)
(* of invocations of handle_cd and handle_pwd with standard output as sink *)

\* number of invocations of the handlers in SpecCd
MaxCalls == 4

\* the argument vectors given to handle_cd: none (home), an absolute and a
\* relative name of an existing directory, a tilde alone and before a missing
\* name, a missing directory, and a name that is no directory
CdArgLists ==
    {<<>>, <<W_tmp>>, <<<<"t", "m", "p">>>>, <<<<"h">>>>, <<<<"~">>>>,
     <<<<"~", "/", "x">>>>, <<<<"/", "n", "o">>>>, <<W_o>>}

InitCd ==
    /\ pc = "idle"
    /\ input = <<>>
    /\ eof = FALSE
    /\ nread = 0
    /\ CURRENT_DIR = <<"/">>
    /\ os_cwd \in {<<"/">>, home_dir}
    /\ files = <<>>
    /\ stdout = <<>>
    /\ stderr = <<>>
    /\ called = "nothing"
    /\ last_cd = None
    /\ fn = "handle_cd"
    /\ arg_in = <<>>
    /\ ret = None

\* handle_cd(args, Box::new(io::stdout())); stdout holds what this call wrote
CallHandleCd ==
    /\ fn = "handle_cd"
    /\ nread < MaxCalls
    /\ \E args \in CdArgLists :
          LET w == handle_cd([World EXCEPT !.stdout = <<>>], args, StdoutSink)
          IN  /\ arg_in' = args
              /\ stdout' = w.stdout
              /\ os_cwd' = w.os_cwd
              /\ CURRENT_DIR' = w.CURRENT_DIR
              /\ called' = w.called
              /\ last_cd' = IF w.os_cwd # os_cwd \/ w.stdout[1].fmt # "cd: {}: {}"
                            THEN Some(w.os_cwd) ELSE last_cd
    /\ nread' = nread + 1
    /\ UNCHANGED <<pc, input, eof, files, stderr, fn, ret>>

\* handle_pwd(args, Box::new(io::stdout())); stdout holds what this call wrote
CallHandlePwd ==
    /\ fn = "handle_cd"
    /\ nread < MaxCalls
    /\ LET w == handle_pwd([World EXCEPT !.stdout = <<>>], <<>>, StdoutSink)
       IN  /\ stdout' = w.stdout
           /\ called' = w.called
    /\ arg_in' = <<>>
    /\ nread' = nread + 1
    /\ UNCHANGED <<pc, input, eof, files, stderr, fn, ret, os_cwd, CURRENT_DIR, last_cd>>

NextCd == CallHandleCd \/ CallHandlePwd

SpecCd == InitCd /\ [][NextCd]_vars


-----------------------------------------------------------------------------
(* Claims about the built-in handlers, checked under SpecCd *)

\* C11 as claimed: after any sequence of change-directory invocations, once
\* one of them succeeded, the shared working-directory value denotes the
\* directory the operating system was last successfully set to, which is the
\* current directory of the process.
C11_SharedDirIsOsDir ==
    (fn = "handle_cd" /\ last_cd # None) =>
        /\ last_cd[1] = os_cwd
        /\ Resolve(os_cwd, CURRENT_DIR) = os_cwd

\* the directory an invocation of handle_cd with these arguments asks for:
\* home for no argument, a leading ~ replaced by home
RequestedDir(args) ==
    IF args = <<>> THEN <<"/", "h">>
    ELSE IF Head(args[1]) = "~" THEN <<"/", "h">> \o Tail(args[1])
    ELSE args[1]

\* C12: an invocation of change-directory whose operating-system call fails
\* leaves the shared value (and the directory of the process) unchanged and
\* writes the one line "cd: <target>: <reason>" to the output sink; one whose
\* call succeeds sets the shared value to the resolved target and writes the
\* one confirmation line to the output sink.
C12_CdFrameAndEffect ==
    [][(fn = "handle_cd" /\ called' = "handle_cd") =>
        LET dir == RequestedDir(arg_in')
        IN  IF Resolve(os_cwd, dir) \in Dirs
            THEN /\ CURRENT_DIR' = dir
                 /\ os_cwd' = Resolve(os_cwd, dir)
                 /\ stdout' = <<Msg("Changed directory to: {}", <<dir>>)>>
            ELSE /\ CURRENT_DIR' = CURRENT_DIR
                 /\ os_cwd' = os_cwd
                 /\ Len(stdout') = 1
                 /\ stdout'[1].fmt = "cd: {}: {}"
                 /\ stdout'[1].args[1] = dir]_vars

\* C12 witness: a failed invocation with a tilde target, after a successful
\* one that left the shared value at the home directory
C12_Witness ==
    /\ fn = "handle_cd"
    /\ called = "handle_cd"
    /\ arg_in = <<<<"~", "/", "x">>>>
    /\ stdout = <<Msg("cd: {}: {}", <<<<"/", "h", "/", "x">>, CdErrorMessage>>)>>
    /\ CURRENT_DIR = home_dir
    /\ last_cd # None


-----------------------------------------------------------------------------
(* The read loop under the fairness its scheduling gives: main is one      *)
(* sequential thread, and once the input has ended it waits for nothing    *)
(* (a read at end of input returns at once), so from then on it always     *)
(* takes its next step.  Before that nothing is assumed: a line may never  *)
(* be typed, a child process may never end.                                *)

Fairness == WF_vars(eof /\ Next)

SpecLive == Init /\ [][Next]_vars /\ Fairness

\* the positions of main inside its loop
LoopPositions == {"prompt", "read", "handle"}

\* C13 as claimed: once the input stream has reached end of input, the read
\* loop eventually stops for good: no further prompt is written and no
\* further read is made.
C13_EndOfInputStopsLoop == eof ~> [](pc \notin LoopPositions)


-----------------------------------------------------------------------------
(* Claims about the read loop, checked under Spec *)

\* the directory a cd line asks for
CdRequest == RequestedDir(Tail(Plan.cmd_args))

\* C14 as claimed: the handling of every line ends back at the prompt with the
\* input buffer cleared, the process not terminated, and every error path has
\* produced its message: a sink that cannot be opened and a command that is
\* not found one line on standard error, a directory change that fails the
\* line "cd: <target>: <reason>" on the output sink, a child that cannot be
\* started one line on the output sink.
C14_EveryLineReturnsToPrompt ==
    [][pc = "handle" =>
        /\ pc' = "prompt"
        /\ input' = <<>>
        /\ (HandlingCommand /\ (OutputOpenFails \/ ErrorOpenFails)) =>
               Len(stderr') = Len(stderr) + 1
        /\ (HandlingCommand /\ ~OutputOpenFails /\ ~ErrorOpenFails
                /\ CmdName \notin {W_cd, W_pwd} /\ ~OnSearchPath(CmdName)) =>
               Len(stderr') = Len(stderr) + 1
        /\ (HandlingCommand /\ ~OutputOpenFails /\ ~ErrorOpenFails
                /\ CmdName = W_cd /\ Plan.output_file = None
                /\ Resolve(os_cwd, CdRequest) \notin Dirs) =>
               stdout' = Append(stdout, Msg("cd: {}: {}", <<CdRequest, CdErrorMessage>>))
        /\ (called' = "launch_failed" /\ Plan.output_file = None) =>
               Len(stdout') = Len(stdout) + 1]_vars


-----------------------------------------------------------------------------
(* check_cmd_in_path as a pure function of the search path and the command *)

\* the most directories on a search path
MaxPathDirs == 3

\* the directories a search path names: /n is missing, "" is not a
\* directory, /tmp is empty, /b and /u hold entries
PathDirs == {<<"/", "n">>, <<>>, W_tmp, <<"/", "b">>, <<"/", "u">>}

\* the command names looked up: ls is in /b and /u, cat in /b only, zz and l
\* nowhere
PathCmds == {W_ls, <<"c", "a", "t">>, W_zz, <<"l">>}

RECURSIVE JoinColon(_, _)
\* the directories from position k on, written as a PATH value
JoinColon(dirs, k) ==
    IF k > Len(dirs) THEN <<>>
    ELSE IF k = Len(dirs) THEN dirs[k]
    ELSE dirs[k] \o <<":">> \o JoinColon(dirs, k + 1)

\* arg_in = <<the directories of PATH (None: PATH is not set), the command>>
InitPath ==
    /\ ShellIdle
    /\ fn = "check_cmd_in_path"
    /\ arg_in \in ({None} \cup {Some(d) : d \in SeqsUpTo(PathDirs, MaxPathDirs)}) \X PathCmds
    /\ ret = None

CallCheckCmdInPath ==
    /\ fn = "check_cmd_in_path"
    /\ ret = None
    /\ ret' = Some(check_cmd_in(IF arg_in[1] = None THEN None
                                ELSE Some(JoinColon(arg_in[1][1], 1)),
                                arg_in[2]))
    /\ UNCHANGED <<shellVars, fn, arg_in>>

SpecPath == InitPath /\ [][CallCheckCmdInPath]_vars

\* directory dir can be listed and has an entry named exactly cmd
HasEntry(dir, cmd) ==
    /\ read_dir(dir) # None
    /\ \E j \in 1..Len(read_dir(dir)[1]) : read_dir(dir)[1][j] = cmd

\* the positions on the search path dirs of the directories that hold cmd
Holders(dirs, cmd) == {k \in 1..Len(dirs) : HasEntry(dirs[k], cmd)}

\* C15: check_cmd_in_path returns the entry named cmd of the first directory
\* of the colon-separated search path, left to right, that can be listed and
\* has an entry of exactly that name; directories that cannot be listed are
\* passed over; the result is none exactly when no listable directory of the
\* path has such an entry (in particular when PATH is not set).
C15_FirstMatchOnPath ==
    (fn = "check_cmd_in_path" /\ ret # None) =>
        LET dirs == IF arg_in[1] = None THEN <<>> ELSE arg_in[1][1]
            cmd == arg_in[2]
            H == Holders(dirs, cmd)
        IN  /\ (ret[1] = None) <=> (H = {})
            /\ H # {} =>
                 LET first == CHOOSE k \in H : \A j \in H : k <= j
                 IN  ret[1] = Some([dir |-> dirs[first], file_name |-> cmd])

\* ls looked up on /n:/u:/b : /n cannot be listed, /u comes before /b
C15_Witness ==
    /\ fn = "check_cmd_in_path"
    /\ arg_in = <<Some(<<<<"/", "n">>, <<"/", "u">>, <<"/", "b">>>>), W_ls>>
    /\ ret = Some(Some([dir |-> <<"/", "u">>, file_name |-> W_ls]))


-----------------------------------------------------------------------------
(* Claims about the quote modes of handle_quotes, checked under SpecTok *)

\* the characters that are neither whitespace, nor a quote, nor a backslash
PlainChars == {"a", "b", "$"}

\* what follows a closing quote is nothing, or one whitespace character and
\* then plain characters only
PlainRest(rest) ==
    \/ rest = <<>>
    \/ rest[1] \in WhiteSpace /\ \A i \in 2..Len(rest) : rest[i] \in PlainChars

\* the tokens made of a token text, none when the text is empty
TokenOf(text) == IF text = <<>> THEN <<>> ELSE <<text>>

\* the part of the line after position close
After(line, close) == SubSeq(line, close + 1, Len(line))

RECURSIVE DqClose(_, _)
\* the position, from i on, of the first double quote that no backslash
\* escapes, or 0: a backslash takes the character after it with it
DqClose(line, i) ==
    IF i > Len(line) THEN 0
    ELSE IF line[i] = BACKSLASH
    THEN IF i + 1 > Len(line) THEN 0 ELSE DqClose(line, i + 2)
    ELSE IF line[i] = DQUOTE THEN i
    ELSE DqClose(line, i + 1)

RECURSIVE DqText(_, _, _)
\* what the characters of line from i to before close contribute by C16
DqText(line, i, close) ==
    IF i >= close THEN <<>>
    ELSE IF line[i] = BACKSLASH
    THEN (IF line[i + 1] \in {"$", DQUOTE, BACKSLASH}
          THEN <<line[i + 1]>>
          ELSE <<BACKSLASH, line[i + 1]>>) \o DqText(line, i + 2, close)
    ELSE <<line[i]>> \o DqText(line, i + 1, close)

\* C16: inside double quotes a backslash before `$`, `"` or a backslash
\* contributes only that character (an escaped `"` does not close the mode), a
\* backslash before any other character contributes the backslash and the
\* character, and the first `"` that is not escaped closes the mode and is
\* not appended: a line that opens with `"` yields the text so decoded as its
\* first token, and what follows the closing quote is tokenized as usual.
C16_DoubleQuoteEscapes ==
    (fn = "handle_quotes" /\ ret # None /\ arg_in # <<>> /\ arg_in[1] = DQUOTE) =>
        LET close == DqClose(arg_in, 2)
        IN  (close > 0 /\ PlainRest(After(arg_in, close))) =>
                Tokens = TokenOf(DqText(arg_in, 2, close))
                            \o TokenOf(SubSeq(arg_in, close + 2, Len(arg_in)))

\* the line "\"a" : the escaped quote is text and does not close the mode,
\* the last quote closes it and is not appended
C16_Witness ==
    /\ fn = "handle_quotes"
    /\ arg_in = <<DQUOTE, BACKSLASH, DQUOTE, "a", DQUOTE>>
    /\ ret = Some(<<<<DQUOTE, "a">>>>)

\* the position, from i on, of the first single quote, or 0
SqClose(line, i) ==
    LET P == {j \in i..Len(line) : line[j] = SQUOTE}
    IN  IF P = {} THEN 0 ELSE CHOOSE j \in P : \A k \in P : j <= k

\* C17: inside single quotes every character but the single quote is appended
\* as it stands, backslash, double quote and whitespace included, and sets no
\* escape or quote flag; the single quote closes the mode and is not appended:
\* a line that opens with `'` yields the characters up to the next `'`
\* unchanged as its first token, and what follows is tokenized as usual.
C17_SingleQuoteLiteral ==
    (fn = "handle_quotes" /\ ret # None /\ arg_in # <<>> /\ arg_in[1] = SQUOTE) =>
        LET close == SqClose(arg_in, 2)
        IN  (close > 0 /\ PlainRest(After(arg_in, close))) =>
                Tokens = TokenOf(SubSeq(arg_in, 2, close - 1))
                            \o TokenOf(SubSeq(arg_in, close + 2, Len(arg_in)))

\* the line '\' a : the backslash is the first token and escapes nothing
C17_Witness ==
    /\ fn = "handle_quotes"
    /\ arg_in = <<SQUOTE, BACKSLASH, SQUOTE, " ", "a">>
    /\ ret = Some(<<<<BACKSLASH>>, <<"a">>>>)


-----------------------------------------------------------------------------
(* Claims about the tokens of every line, checked under SpecTok *)

RECURSIVE ModeAt(_, _)
\* the region of the line in which its character i stands: outside quotes
\* ("unquoted"), right after an unquoted backslash ("escaped"), inside single
\* quotes, inside double quotes, or inside double quotes after a backslash
ModeAt(line, i) ==
    IF i = 1 THEN "unquoted"
    ELSE LET m == ModeAt(line, i - 1)
             c == line[i - 1]
         IN  CASE m = "unquoted" ->
                      IF c = BACKSLASH THEN "escaped"
                      ELSE IF c = SQUOTE THEN "single"
                      ELSE IF c = DQUOTE THEN "double"
                      ELSE "unquoted"
               [] m = "escaped" -> "unquoted"
               [] m = "single" -> IF c = SQUOTE THEN "unquoted" ELSE "single"
               [] m = "double" ->
                      IF c = BACKSLASH THEN "double_escaped"
                      ELSE IF c = DQUOTE THEN "unquoted"
                      ELSE "double"
               [] OTHER -> "double"

\* the whitespace characters of the line, in order, that stand inside a quoted
\* region or right after an unquoted backslash
ProtectedWhitespace(line) ==
    LET Keep(i) == line[i] \in WhiteSpace /\ ModeAt(line, i) # "unquoted"
        at == SelectSeq([i \in 1..Len(line) |-> i], Keep)
    IN  [k \in 1..Len(at) |-> line[at[k]]]

RECURSIVE Flatten(_)
\* the characters of the tokens, in order
Flatten(toks) == IF toks = <<>> THEN <<>> ELSE Head(toks) \o Flatten(Tail(toks))

\* the whitespace characters of str, in order
WhitespaceOf(str) ==
    LET IsWs(c) == c \in WhiteSpace
    IN  SelectSeq(str, IsWs)

\* the plain characters of str, in order
PlainOf(str) ==
    LET IsPlain(c) == c \in PlainChars
    IN  SelectSeq(str, IsPlain)

\* C18: for every line, each whitespace character inside a token stood inside
\* a single- or double-quoted region of the line or right after an unquoted
\* backslash (the whitespace of the tokens is, in order, exactly that
\* whitespace of the line), and the tokens come in the order of their source
\* text (their plain characters are, in order, those of the line).
C18_TokenWhitespaceIsProtected ==
    (fn = "handle_quotes" /\ ret # None) =>
        /\ WhitespaceOf(Flatten(Tokens)) = ProtectedWhitespace(arg_in)
        /\ PlainOf(Flatten(Tokens)) = PlainOf(arg_in)

\* the line `a\ <tab>b` : the escaped space stays in the first token, the tab
\* separates
C18_Witness ==
    /\ fn = "handle_quotes"
    /\ arg_in = <<"a", BACKSLASH, " ", "\t", "b">>
    /\ ret = Some(<<<<"a", " ">>, <<"b">>>>)

\* the line is whitespace around one empty pair of quotes
EmptyQuotedAlone(line) ==
    \E i \in 1..(Len(line) - 1) :
        /\ line[i] \in QuoteChars
        /\ line[i + 1] = line[i]
        /\ \A j \in 1..Len(line) : j \notin {i, i + 1} => line[j] \in WhiteSpace

\* C19: for every line, every token returned is non-empty: an unterminated
\* quote or a trailing backslash adds no empty token, and an empty quoted
\* string ('' or "") alone between whitespace yields no token at all.
C19_TokensAreNonEmpty ==
    (fn = "handle_quotes" /\ ret # None) =>
        /\ \A k \in 1..Len(Tokens) : Tokens[k] # <<>>
        /\ EmptyQuotedAlone(arg_in) => Tokens = <<>>

\* the line ` '' ` of two spaces around an empty single-quoted string
C19_Witness ==
    /\ fn = "handle_quotes"
    /\ arg_in = <<" ", SQUOTE, SQUOTE, " ">>
    /\ ret = Some(<<>>)


-----------------------------------------------------------------------------
(* Claims about the order of the dispatcher's steps, checked under Spec *)

\* the tokens of the line handle_cmd is about to be given
LineTokens == handle_quotes(Cmd)

\* the position in the line of its last output operator that has a filename
OutputOperator == LastConsumed(LineTokens, OpOutTrunc \cup OpOutAppend)

\* the file that operator names
OutputPath == Resolve(os_cwd, LineTokens[OutputOperator + 1])

\* the line fails after its output target was opened
FailsAfterOutput ==
    \/ ErrorOpenFails
    \/ CmdName \notin {W_cd, W_pwd} /\ ~OnSearchPath(CmdName)

\* C20 as claimed: the output target is opened before the error target and
\* both before the command is resolved: when the output target cannot be
\* opened the error target is not touched; a line whose output operator is
\* truncating (`>` or `1>`) leaves its target file existing and empty even
\* when the line then fails on its error target or on a command that is not
\* found; the previous content of the target is kept, on such a line, only
\* when the operator is an appending one.
C20_OutputOpenedFirst ==
    [][(HandlingCommand /\ OutputOperator > 0) =>
        IF OutputPath \in Dirs
        THEN files' = files
        ELSE /\ OutputPath \in DOMAIN files'
             /\ (LineTokens[OutputOperator] \in OpOutTrunc /\ FailsAfterOutput) =>
                    files'[OutputPath] = <<>>
             /\ (LineTokens[OutputOperator] \in OpOutAppend /\ FailsAfterOutput
                     /\ OutputPath \in DOMAIN files) =>
                    files'[OutputPath] = files[OutputPath]]_vars


=============================================================================
